---- MODULE Spec2Model ----
(***************************************************************************)
(* Model of the cost-basis engine of the Freedom24 profit calculator       *)
(* (python_prototype/src/calculator.py, ProfitCalculator).                 *)
(*                                                                         *)
(* Numbers.  The program computes with Python floats.  The model computes  *)
(* with exact rationals [n, d] (d > 0, lowest terms), so it describes the  *)
(* real-number result of every expression and leaves binary rounding out.  *)
(* Quantities are counted in units of 5e-10 and money amounts in units of  *)
(* 5e-10 as well (prices and unit costs are then plain ratios), so the     *)
(* cleanup threshold 1e-9 of the program is the rational 2 of the model    *)
(* and a quantity of 1 or 3 units is not a multiple of the threshold.      *)
(* The code is homogeneous in the quantity apart from that threshold, so   *)
(* the choice of unit loses nothing.                                       *)
(***************************************************************************)
EXTENDS Integers, Sequences, FiniteSets

(***************************************************************************)
(* Bounds and input domains                                                *)
(***************************************************************************)
MaxTrades == 3

\* the longest trade list of a single security (SpecSingle)
MaxOwnTrades == 4

Tickers == {"AAPL", "MSFT"}

Directions == {"Buy", "Sell"}

\* trade.quantity of a valid Trade record (quantity > 0), in units of 5e-10:
\* 1e-9 and 2e-9
Quantities == {2, 4}

\* (price, fee) of a BUY: with the quantities, unit costs 1, 5/2, 1 and 9/4
BuyPriceFees == {<<1, 0>>, <<2, 1>>}

\* (price, fee) of a SELL; they enter the sale proceeds only
SellPriceFees == {<<3, 1>>}

PriceFees(direction) ==
    IF direction = "Buy" THEN BuyPriceFees ELSE SellPriceFees

\* the method argument of calculate; "LIFO" stands for any other string
Methods == {"FIFO", "AVG", "LIFO"}

\* the threshold 1e-9 of the precision cleanup, in units of 5e-10
EpsNum == 2

(***************************************************************************)
(* Exact rational arithmetic standing for the float operators              *)
(***************************************************************************)
Abs(i) == IF i < 0 THEN 0 - i ELSE i

RECURSIVE GCD(_, _)
GCD(a, b) == IF b = 0 THEN a ELSE GCD(b, a % b)

Norm(n, d) ==
    LET g == GCD(Abs(n), d)
    IN  [n |-> n \div g, d |-> d \div g]

Rat(i) == [n |-> i, d |-> 1]

Zero == Rat(0)

EPS == Rat(EpsNum)

Add(x, y) == Norm(x.n * y.d + y.n * x.d, x.d * y.d)

Sub(x, y) == Norm(x.n * y.d - y.n * x.d, x.d * y.d)

Mul(x, y) == Norm(x.n * y.n, x.d * y.d)

\* x / y for y # 0 (the caller handles y = 0, where Python raises)
Div(x, y) ==
    IF y.n > 0 THEN Norm(x.n * y.d, x.d * y.n)
               ELSE Norm(0 - (x.n * y.d), x.d * (0 - y.n))

Less(x, y) == x.n * y.d < y.n * x.d

Leq(x, y) == x.n * y.d <= y.n * x.d

(***************************************************************************)
(* The data classes of models.py                                           *)
(***************************************************************************)
\* Trade: amount and datetime_str are never read by calculate and are left out
Trade(date, ticker, direction, quantity, price, fee) ==
    [date |-> date, ticker |-> ticker, direction |-> direction,
     quantity |-> quantity, price |-> price, fee |-> fee]

Lot(date, quantity, unit_cost, price_paid, fees_paid) ==
    [date |-> date, quantity |-> quantity, unit_cost |-> unit_cost,
     price_paid |-> price_paid, fees_paid |-> fees_paid]

ClosedTrade(ticker, date, quantity, sell_price, sell_fees, cost_basis, realized_profit, sale_proceeds, method) ==
    [ticker |-> ticker, date |-> date, quantity |-> quantity,
     sell_price |-> sell_price, sell_fees |-> sell_fees,
     cost_basis |-> cost_basis, realized_profit |-> realized_profit,
     sale_proceeds |-> sale_proceeds, method |-> method]

(***************************************************************************)
(* The state of one ProfitCalculator and of its caller                     *)
(***************************************************************************)
VARIABLES
    trades,            \* self.trades
    realized_profits,  \* self.realized_profits
    open_positions,    \* self.open_positions: ticker -> ledger
    method,            \* argument of the calculate call made since trades
                       \* was last assigned, "NONE" if there was none
    raised,            \* exception that ended that call, "none" if it returned
    loop               \* the locals of _process_ticker while one security's
                       \* trades are processed under FIFO, and its position

vars == <<trades, realized_profits, open_positions, method, raised, loop>>

\* the empty dict
EmptyDict == [t \in {} |-> <<>>]

\* sum(l.quantity for l in ledger)
RECURSIVE SumQty(_)
SumQty(ledger) ==
    IF ledger = <<>> THEN Zero
    ELSE Add(Head(ledger).quantity, SumQty(Tail(ledger)))

\* sum(l.quantity * l.unit_cost for l in ledger)
RECURSIVE SumCost(_)
SumCost(ledger) ==
    IF ledger = <<>> THEN Zero
    ELSE Add(Mul(Head(ledger).quantity, Head(ledger).unit_cost),
             SumCost(Tail(ledger)))

\* dict[key] = value
Put(dict, key, value) ==
    [k \in (DOMAIN dict) \cup {key} |-> IF k = key THEN value ELSE dict[k]]

(***************************************************************************)
(* _process_ticker: the BUY branch                                         *)
(***************************************************************************)
\* variant: the fee is left out of the unit cost
UnitCost_NoFee(trade) == Rat(trade.price)

\* unit_cost = (trade.price * trade.quantity + trade.fee) / trade.quantity
UnitCost(trade) ==
    Div(Add(Mul(Rat(trade.price), Rat(trade.quantity)), Rat(trade.fee)),
        Rat(trade.quantity))

\* the Lot a BUY appends to the ledger
BuyLot(trade) ==
    Lot(trade.date, Rat(trade.quantity), UnitCost(trade),
        Mul(Rat(trade.price), Rat(trade.quantity)), Rat(trade.fee))

(***************************************************************************)
(* _process_ticker: the SELL branch, FIFO                                  *)
(***************************************************************************)
\* variant: ledger.pop() in place of ledger.pop(0)
FifoWhole_PopLast(ledger, qty_to_sell, cost_basis) ==
    [ledger      |-> SubSeq(ledger, 1, Len(ledger) - 1),
     qty_to_sell |-> Sub(qty_to_sell, Head(ledger).quantity),
     cost_basis  |-> Add(cost_basis,
                         Mul(Head(ledger).quantity, Head(ledger).unit_cost))]

\* head_lot.quantity <= qty_to_sell: consume the entire lot
FifoWhole(ledger, qty_to_sell, cost_basis) ==
    [ledger      |-> Tail(ledger),
     qty_to_sell |-> Sub(qty_to_sell, Head(ledger).quantity),
     cost_basis  |-> Add(cost_basis,
                         Mul(Head(ledger).quantity, Head(ledger).unit_cost))]

\* variant: qty_to_sell -= head_lot.quantity in place of qty_to_sell = 0
FifoPartial_Overdraw(ledger, qty_to_sell, cost_basis) ==
    [ledger      |-> <<[Head(ledger) EXCEPT
                          !.quantity = Sub(@, qty_to_sell)]>> \o Tail(ledger),
     qty_to_sell |-> Sub(qty_to_sell, Head(ledger).quantity),
     cost_basis  |-> Add(cost_basis, Mul(qty_to_sell, Head(ledger).unit_cost))]

\* variant: head_lot.quantity -= qty_to_sell is forgotten
FifoPartial_NoReduce(ledger, qty_to_sell, cost_basis) ==
    [ledger      |-> ledger,
     qty_to_sell |-> Zero,
     cost_basis  |-> Add(cost_basis, Mul(qty_to_sell, Head(ledger).unit_cost))]

\* otherwise: consume a part of the head lot
FifoPartial(ledger, qty_to_sell, cost_basis) ==
    [ledger      |-> <<[Head(ledger) EXCEPT
                          !.quantity = Sub(@, qty_to_sell)]>> \o Tail(ledger),
     qty_to_sell |-> Zero,
     cost_basis  |-> Add(cost_basis, Mul(qty_to_sell, Head(ledger).unit_cost))]

\* while qty_to_sell > 0 and ledger: ...
RECURSIVE FifoConsume(_, _, _)
FifoConsume(ledger, qty_to_sell, cost_basis) ==
    IF Less(Zero, qty_to_sell) /\ ledger # <<>>
    THEN LET s == IF Leq(Head(ledger).quantity, qty_to_sell)
                  THEN FifoWhole(ledger, qty_to_sell, cost_basis)
                  ELSE FifoPartial(ledger, qty_to_sell, cost_basis)
         IN  FifoConsume(s.ledger, s.qty_to_sell, s.cost_basis)
    ELSE [ledger |-> ledger, qty_to_sell |-> qty_to_sell,
          cost_basis |-> cost_basis]

(***************************************************************************)
(* _process_ticker: the SELL branch, AVG                                   *)
(***************************************************************************)
\* variant: the plain mean of the unit costs, not weighted by quantity
AvgCostBasis_Unweighted(ledger, qty_to_sell) ==
    LET RECURSIVE SumUnit(_)
        SumUnit(l) == IF l = <<>> THEN Zero
                      ELSE Add(Head(l).unit_cost, SumUnit(Tail(l)))
    IN  Mul(qty_to_sell, Div(SumUnit(ledger), Rat(Len(ledger))))

\* cost_basis = qty_to_sell * (total_cost / total_qty)
AvgCostBasis(ledger, qty_to_sell) ==
    Mul(qty_to_sell, Div(SumCost(ledger), SumQty(ledger)))

\* variant: the share sold in place of the share kept
AvgRatio_Sold(ledger, qty_to_sell) == Div(qty_to_sell, SumQty(ledger))

\* ratio = (total_qty - qty_to_sell) / total_qty
AvgRatio(ledger, qty_to_sell) ==
    Div(Sub(SumQty(ledger), qty_to_sell), SumQty(ledger))

\* variant: only the oldest lot is scaled
AvgScale_HeadOnly(ledger, ratio) ==
    [i \in 1 .. Len(ledger) |->
        IF i = 1 THEN [ledger[i] EXCEPT !.quantity = Mul(@, ratio)]
        ELSE ledger[i]]

\* lot.quantity *= ratio, for every lot of the ledger
AvgScale(ledger, ratio) ==
    [i \in 1 .. Len(ledger) |->
        [ledger[i] EXCEPT !.quantity = Mul(@, ratio)]]

\* variant: lot.quantity <= 1e-9
Negligible_Wide(lot) == Leq(lot.quantity, EPS)

\* the lots collected in to_remove: lot.quantity < 1e-9
Negligible(lot) == Less(lot.quantity, EPS)

\* for lot in to_remove: ledger.remove(lot).  list.remove drops the first
\* element equal to lot; a lot equal to a lot of to_remove has the same
\* quantity and is in to_remove too, so exactly the lots of to_remove go.
AvgCleanup(ledger) == SelectSeq(ledger, LAMBDA lot : ~Negligible(lot))

AvgConsume(ledger, qty_to_sell) ==
    IF Less(Zero, SumQty(ledger))
    THEN [ledger     |-> AvgCleanup(AvgScale(ledger,
                                             AvgRatio(ledger, qty_to_sell))),
          cost_basis |-> AvgCostBasis(ledger, qty_to_sell)]
    ELSE [ledger |-> ledger, cost_basis |-> Zero]

(***************************************************************************)
(* _process_ticker: one SELL                                               *)
(***************************************************************************)
\* the effect of the method branches on the ledger and on cost_basis;
\* with any other method string neither branch runs
Consume(ledger, qty_to_sell, m) ==
    IF m = "FIFO" THEN
        LET r == FifoConsume(ledger, qty_to_sell, Zero)
        IN  [ledger |-> r.ledger, cost_basis |-> r.cost_basis]
    ELSE IF m = "AVG" THEN AvgConsume(ledger, qty_to_sell)
    ELSE [ledger |-> ledger, cost_basis |-> Zero]

\* variant: the fee is not deducted from the proceeds
SaleProceeds_NoFee(trade) == Mul(Rat(trade.price), Rat(trade.quantity))

\* sale_proceeds = (trade.price * trade.quantity) - trade.fee
SaleProceeds(trade) ==
    Sub(Mul(Rat(trade.price), Rat(trade.quantity)), Rat(trade.fee))

\* the ClosedTrade of one SELL
Close(ticker, trade, cost_basis, m) ==
    ClosedTrade(ticker, trade.date, Rat(trade.quantity), Rat(trade.price),
                Rat(trade.fee), cost_basis,
                Sub(SaleProceeds(trade), cost_basis), SaleProceeds(trade), m)

(***************************************************************************)
(* _process_ticker and calculate.  self = the fields of the calculator and *)
(* the exception that ended the call; st = self and the local ledger.      *)
(***************************************************************************)
\* if trade.direction == TradeDirection.BUY: the division by a quantity of 0
\* raises ZeroDivisionError before any lot is made
BuyStep(st, trade) ==
    IF trade.quantity = 0
    THEN [st EXCEPT !.self.raised = "ZeroDivisionError"]
    ELSE [st EXCEPT !.ledger = Append(@, BuyLot(trade))]

\* variant: a SELL that meets an empty ledger records nothing
SellStep_SkipEmpty(st, ticker, trade, m) ==
    LET r == Consume(st.ledger, Rat(trade.quantity), m)
    IN  IF st.ledger = <<>> THEN st
        ELSE [self   |-> [st.self EXCEPT !.realized_profits =
                             Append(@, Close(ticker, trade, r.cost_basis, m))],
              ledger |-> r.ledger]

\* elif trade.direction == TradeDirection.SELL: consume, then append the
\* ClosedTrade to self.realized_profits
SellStep(st, ticker, trade, m) ==
    LET r == Consume(st.ledger, Rat(trade.quantity), m)
    IN  [self   |-> [st.self EXCEPT !.realized_profits =
                        Append(@, Close(ticker, trade, r.cost_basis, m))],
         ledger |-> r.ledger]

\* for trade in trades: ... (an exception leaves the loop)
RECURSIVE ProcessTrades(_, _, _, _)
ProcessTrades(st, ticker, tr, m) ==
    IF tr = <<>> \/ st.self.raised # "none" THEN st
    ELSE ProcessTrades(IF Head(tr).direction = "Buy"
                       THEN BuyStep(st, Head(tr))
                       ELSE SellStep(st, ticker, Head(tr), m),
                       ticker, Tail(tr), m)

\* ledger = [] ; the loop ; self.open_positions[ticker] = ledger
process_ticker(self, ticker, tr, m) ==
    LET st == ProcessTrades([self |-> self, ledger |-> <<>>], ticker, tr, m)
    IN  IF st.self.raised # "none" THEN st.self
        ELSE [st.self EXCEPT !.open_positions = Put(@, ticker, st.ledger)]

\* variant: the keys in the reverse of insertion order
RECURSIVE TickerOrder_Reversed(_, _)
TickerOrder_Reversed(tr, seen) ==
    IF tr = <<>> THEN <<>>
    ELSE IF Head(tr).ticker \in seen THEN TickerOrder_Reversed(Tail(tr), seen)
    ELSE TickerOrder_Reversed(Tail(tr), seen \cup {Head(tr).ticker})
         \o <<Head(tr).ticker>>

\* the keys of trades_by_ticker, in insertion order
RECURSIVE TickerOrder(_, _)
TickerOrder(tr, seen) ==
    IF tr = <<>> THEN <<>>
    ELSE IF Head(tr).ticker \in seen THEN TickerOrder(Tail(tr), seen)
    ELSE <<Head(tr).ticker>> \o
         TickerOrder(Tail(tr), seen \cup {Head(tr).ticker})

\* variant: the trades are not grouped
TickerTrades_All(tr, ticker) == tr

\* trades_by_ticker[ticker]
TickerTrades(tr, ticker) == SelectSeq(tr, LAMBDA t : t.ticker = ticker)

\* for ticker, ticker_trades in trades_by_ticker.items(): ...
RECURSIVE ProcessTickers(_, _, _)
ProcessTickers(self, keys, m) ==
    IF keys = <<>> \/ self.raised # "none" THEN self
    ELSE ProcessTickers(
             process_ticker(self, Head(keys),
                            TickerTrades(self.trades, Head(keys)), m),
             Tail(keys), m)

\* variant: self.realized_profits = [] is forgotten
Reset_KeepPositions(self) == [self EXCEPT !.realized_profits = <<>>]

Reset_KeepProfits(self) == [self EXCEPT !.open_positions = EmptyDict]

\* self.realized_profits = [] ; self.open_positions = {}
Reset(self) ==
    [self EXCEPT !.realized_profits = <<>>, !.open_positions = EmptyDict]

calculate(self, m) ==
    ProcessTickers(Reset([self EXCEPT !.raised = "none"]),
                   TickerOrder(self.trades, {}), m)

\* ProfitCalculator(): __init__
NewCalculator ==
    [trades |-> <<>>, realized_profits |-> <<>>,
     open_positions |-> EmptyDict, raised |-> "none"]

\* the calculator as an object
Self ==
    [trades |-> trades, realized_profits |-> realized_profits,
     open_positions |-> open_positions, raised |-> raised]

(***************************************************************************)
(* Actions                                                                 *)
(***************************************************************************)
\* _process_ticker before its first trade: ledger = []
IdleLoop ==
    [pc |-> "idle", n |-> 0, ledger |-> <<>>,
     qty_to_sell |-> Zero, cost_basis |-> Zero]

Init ==
    /\ trades = NewCalculator.trades
    /\ realized_profits = NewCalculator.realized_profits
    /\ open_positions = NewCalculator.open_positions
    /\ raised = "none"
    /\ method = "NONE"
    /\ loop = IdleLoop

\* Ticker names are only compared for equality, so a list may be taken to
\* name its tickers in the order of Tickers' first appearance: "MSFT" is
\* used once "AAPL" has been.
MayUse(ticker) ==
    ticker = "AAPL" \/ \E i \in 1 .. Len(trades) : trades[i].ticker = "AAPL"

\* The caller builds the trade list of a new calculator, in ascending date
\* order (load_trades sorts; the tests assign a sorted list).
AddTrade(ticker, direction, quantity, pf) ==
    /\ method = "NONE"
    /\ MayUse(ticker)
    /\ realized_profits = <<>>
    /\ open_positions = EmptyDict
    /\ Len(trades) < MaxTrades
    /\ trades' = Append(trades, Trade(Len(trades) + 1, ticker, direction,
                                      quantity, pf[1], pf[2]))
    /\ UNCHANGED <<realized_profits, open_positions, method, raised, loop>>

\* The caller adds a BUY of quantity 0: abs(float(row['Quantity'])) of
\* load_trades lets it through although a Trade is to have quantity > 0.
AddZeroBuy(ticker) ==
    /\ method = "NONE"
    /\ MayUse(ticker)
    /\ realized_profits = <<>>
    /\ open_positions = EmptyDict
    /\ Len(trades) < MaxTrades
    /\ trades' = Append(trades, Trade(Len(trades) + 1, ticker, "Buy", 0, 1, 0))
    /\ UNCHANGED <<realized_profits, open_positions, method, raised, loop>>

\* The caller assigns an empty list: calculator.trades = []
ClearTrades ==
    /\ method # "NONE"
    /\ trades' = <<>>
    /\ method' = "NONE"
    /\ raised' = "none"
    /\ UNCHANGED <<realized_profits, open_positions, loop>>

\* calculator.calculate(method=m)
Calculate(m) ==
    /\ LET s == calculate(Self, m) IN
        /\ trades' = s.trades
        /\ realized_profits' = s.realized_profits
        /\ open_positions' = s.open_positions
        /\ raised' = s.raised
    /\ method' = m
    /\ UNCHANGED loop

Next ==
    \/ \E ticker \in Tickers, direction \in Directions,
          quantity \in Quantities :
          \E pf \in PriceFees(direction) :
          AddTrade(ticker, direction, quantity, pf)
    \/ \E ticker \in Tickers : AddZeroBuy(ticker)
    \/ ClearTrades
    \/ \E m \in Methods : Calculate(m)

Spec == Init /\ [][Next]_vars

(***************************************************************************)
(* Types                                                                   *)
(***************************************************************************)
TypeOK ==
    /\ Len(trades) <= MaxTrades \/ Len(trades) <= MaxOwnTrades
    /\ method \in Methods \cup {"NONE"}
    /\ raised \in {"none", "ZeroDivisionError"}
    /\ DOMAIN open_positions \subseteq Tickers
    /\ loop.pc \in {"idle", "while", "exit"}
    /\ loop.n \in 0 .. MaxTrades
    /\ Len(loop.ledger) <= loop.n

(***************************************************************************)
(* Vocabulary of the properties                                            *)
(***************************************************************************)
\* the last calculate call used a known method and returned
Done == method \in {"FIFO", "AVG"} /\ raised = "none"

NoZeroBuy ==
    \A i \in 1 .. Len(trades) :
        trades[i].direction = "Buy" => trades[i].quantity > 0

NumSells ==
    Cardinality({i \in 1 .. Len(trades) : trades[i].direction = "Sell"})

\* the trades of one security, in input order
OwnTrades(t) == SelectSeq(trades, LAMBDA x : x.ticker = t)

LastTrade(t) == OwnTrades(t)[Len(OwnTrades(t))]

\* the security's last trade is a SELL
EndsWithSell(t) == OwnTrades(t) # <<>> /\ LastTrade(t).direction = "Sell"

\* the ledger of t as the last trade of t finds it
LedgerBefore(t) ==
    ProcessTrades([self |-> NewCalculator, ledger |-> <<>>], t,
                  SubSeq(OwnTrades(t), 1, Len(OwnTrades(t)) - 1), method).ledger

\* the ClosedTrades of one security, in output order
ClosedOf(t) == SelectSeq(realized_profits, LAMBDA c : c.ticker = t)

LastClosed(t) == ClosedOf(t)[Len(ClosedOf(t))]

RMin(x, y) == IF Leq(x, y) THEN x ELSE y

RMax(x, y) == IF Leq(x, y) THEN y ELSE x

(***************************************************************************)
(* C1                                                                      *)
(***************************************************************************)
\* C1: for FIFO and AVG and any list of valid trades, calculate returns with
\* exactly one ClosedTrade per SELL trade: the length of realized_profits is
\* the number of SELL trades, however many lots a SELL spans, also on an
\* empty ledger and on an oversell.
C1_OneClosedTradePerSell ==
    (method \in {"FIFO", "AVG"} /\ NoZeroBuy) =>
        (raised = "none" /\ Len(realized_profits) = NumSells)

\* two SELLs of one security after a BUY of 2: the first sells 4 (oversell),
\* the second meets an empty ledger
C1_Witness ==
    /\ Done
    /\ Len(trades) = 3
    /\ \A i \in 1 .. 3 : trades[i].ticker = "AAPL"
    /\ trades[1].direction = "Buy" /\ trades[1].quantity = 2
    /\ trades[2].direction = "Sell" /\ trades[2].quantity = 4
    /\ trades[3].direction = "Sell"
    /\ Len(realized_profits) = 2

(***************************************************************************)
(* C2                                                                      *)
(***************************************************************************)
\* quantity held by the lots before lot i
HeldBefore(ledger, i) == SumQty(SubSeq(ledger, 1, i - 1))

\* the part of lot i that lies within the first q units of the ledger
Taken(ledger, q, i) ==
    RMax(Zero, RMin(ledger[i].quantity, Sub(q, HeldBefore(ledger, i))))

\* the ledger without its first q units
RECURSIVE HeadRemoved(_, _, _)
HeadRemoved(ledger, q, i) ==
    IF i > Len(ledger) THEN <<>>
    ELSE (IF Taken(ledger, q, i) = ledger[i].quantity THEN <<>>
          ELSE <<[ledger[i] EXCEPT
                    !.quantity = Sub(@, Taken(ledger, q, i))]>>)
         \o HeadRemoved(ledger, q, i + 1)

\* the cost of the first q units, each at the unit cost of its lot
RECURSIVE HeadCost(_, _, _)
HeadCost(ledger, q, i) ==
    IF i > Len(ledger) THEN Zero
    ELSE Add(Mul(Taken(ledger, q, i), ledger[i].unit_cost),
             HeadCost(ledger, q, i + 1))

\* C2: under FIFO a SELL of q against a ledger holding at least q consumes
\* from the head: lots wholly within the first q units are removed, the next
\* lot is reduced by the remainder, later lots are untouched and keep their
\* order, and cost_basis is the cost of the first q units, each at the unit
\* cost of its lot.
C2_FifoConsumesHead ==
    (Done /\ method = "FIFO") =>
        \A t \in DOMAIN open_positions :
            (/\ EndsWithSell(t)
             /\ Leq(Rat(LastTrade(t).quantity), SumQty(LedgerBefore(t)))) =>
                /\ open_positions[t] =
                       HeadRemoved(LedgerBefore(t),
                                   Rat(LastTrade(t).quantity), 1)
                /\ LastClosed(t).cost_basis =
                       HeadCost(LedgerBefore(t),
                                Rat(LastTrade(t).quantity), 1)

\* BUY 2, BUY 4, SELL 4: the first lot goes, the second keeps 2 units
C2_Witness ==
    /\ Done /\ method = "FIFO"
    /\ Len(trades) = 3
    /\ \A i \in 1 .. 3 : trades[i].ticker = "AAPL"
    /\ trades[1].direction = "Buy" /\ trades[1].quantity = 2
    /\ trades[2].direction = "Buy" /\ trades[2].quantity = 4
    /\ trades[3].direction = "Sell" /\ trades[3].quantity = 4
    /\ Len(open_positions["AAPL"]) = 1
    /\ open_positions["AAPL"][1].date = 2
    /\ open_positions["AAPL"][1].quantity = Rat(2)

(***************************************************************************)
(* C3                                                                      *)
(***************************************************************************)
\* C3: under FIFO, one BUY of q followed by one SELL of q of the same
\* security gives realized_profit =
\* (sell_price * q - sell_fee) - (buy_price * q + buy_fee), and the ledger
\* of the security is empty afterwards.
C3_BuyThenSellAll ==
    (/\ Done /\ method = "FIFO"
     /\ Len(trades) = 2
     /\ trades[1].direction = "Buy" /\ trades[2].direction = "Sell"
     /\ trades[1].ticker = trades[2].ticker
     /\ trades[1].quantity = trades[2].quantity) =>
        /\ Len(realized_profits) = 1
        /\ realized_profits[1].realized_profit =
               Rat((trades[2].price * trades[2].quantity - trades[2].fee)
                   - (trades[1].price * trades[1].quantity + trades[1].fee))
        /\ open_positions[trades[1].ticker] = <<>>

\* BUY 4 @ 2 with fee 1, SELL 4 @ 3 with fee 1: profit 11 - 9 = 2
C3_Witness ==
    /\ Done /\ method = "FIFO"
    /\ Len(trades) = 2
    /\ trades[1].direction = "Buy" /\ trades[2].direction = "Sell"
    /\ trades[1].ticker = trades[2].ticker
    /\ trades[1].quantity = 4 /\ trades[2].quantity = 4
    /\ trades[1].fee = 1
    /\ Len(realized_profits) = 1
    /\ realized_profits[1].realized_profit = Rat(2)

(***************************************************************************)
(* C4                                                                      *)
(***************************************************************************)
\* C4: under AVG, a SELL of q against a ledger of positive total quantity
\* has cost_basis = q * (sum of quantity * unit_cost) / (sum of quantity),
\* the sums taken over the lots open just before the SELL.
C4_AvgCostBasis ==
    (Done /\ method = "AVG") =>
        \A t \in DOMAIN open_positions :
            (EndsWithSell(t) /\ Less(Zero, SumQty(LedgerBefore(t)))) =>
                Mul(LastClosed(t).cost_basis, SumQty(LedgerBefore(t))) =
                    Mul(Rat(LastTrade(t).quantity), SumCost(LedgerBefore(t)))

\* BUY 2 @ 1 (unit cost 1), BUY 4 @ 2 fee 1 (unit cost 9/4), SELL 4:
\* average unit cost 11/6, cost basis 22/3
C4_Witness ==
    /\ Done /\ method = "AVG"
    /\ Len(trades) = 3
    /\ \A i \in 1 .. 3 : trades[i].ticker = "AAPL"
    /\ trades[1].direction = "Buy" /\ trades[1].quantity = 2
    /\ trades[1].price = 1
    /\ trades[2].direction = "Buy" /\ trades[2].quantity = 4
    /\ trades[2].price = 2
    /\ trades[3].direction = "Sell" /\ trades[3].quantity = 4
    /\ realized_profits[1].cost_basis = [n |-> 22, d |-> 3]

(***************************************************************************)
(* C5                                                                      *)
(***************************************************************************)
\* the quantity of lot i scaled by (T - q) / T, T the total of the ledger
ProRata(ledger, q, i) ==
    Div(Mul(ledger[i].quantity, Sub(SumQty(ledger), q)), SumQty(ledger))

\* the lots whose scaled quantity is at least 1e-9, scaled, in ledger order
RECURSIVE Survivors(_, _, _)
Survivors(ledger, q, i) ==
    IF i > Len(ledger) THEN <<>>
    ELSE (IF Less(ProRata(ledger, q, i), EPS) THEN <<>>
          ELSE <<[ledger[i] EXCEPT !.quantity = ProRata(ledger, q, i)]>>)
         \o Survivors(ledger, q, i + 1)

\* the sum of the scaled quantities below 1e-9
RECURSIVE DroppedQty(_, _, _)
DroppedQty(ledger, q, i) ==
    IF i > Len(ledger) THEN Zero
    ELSE Add(IF Less(ProRata(ledger, q, i), EPS)
             THEN ProRata(ledger, q, i) ELSE Zero,
             DroppedQty(ledger, q, i + 1))

\* an AVG SELL of t, as last trade of t, of no more than the open total
AvgSellWithin(t) ==
    /\ EndsWithSell(t)
    /\ Less(Zero, SumQty(LedgerBefore(t)))
    /\ Leq(Rat(LastTrade(t).quantity), SumQty(LedgerBefore(t)))

\* C5 as claimed: under AVG a SELL of q <= T multiplies every open lot's
\* quantity by (T - q) / T, so every lot left is a lot of before scaled by
\* that ratio and the total open quantity drops by exactly q.
C5_Claimed ==
    (Done /\ method = "AVG") =>
        \A t \in DOMAIN open_positions :
            AvgSellWithin(t) =>
                /\ \A j \in 1 .. Len(open_positions[t]) :
                     \E i \in 1 .. Len(LedgerBefore(t)) :
                        /\ LedgerBefore(t)[i].date = open_positions[t][j].date
                        /\ open_positions[t][j].quantity =
                               ProRata(LedgerBefore(t),
                                       Rat(LastTrade(t).quantity), i)
                /\ SumQty(open_positions[t]) =
                       Sub(SumQty(LedgerBefore(t)), Rat(LastTrade(t).quantity))

\* C5, amended: under AVG a SELL of q <= T multiplies every open lot's
\* quantity by (T - q) / T and removes the lots whose scaled quantity is
\* below 1e-9; the lots left are the others, scaled, in their order, and the
\* total open quantity drops by q plus the scaled quantities of the removed
\* lots.
C5_AvgProRata ==
    (Done /\ method = "AVG") =>
        \A t \in DOMAIN open_positions :
            AvgSellWithin(t) =>
                /\ open_positions[t] =
                       Survivors(LedgerBefore(t),
                                 Rat(LastTrade(t).quantity), 1)
                /\ SumQty(open_positions[t]) =
                       Sub(Sub(SumQty(LedgerBefore(t)),
                               Rat(LastTrade(t).quantity)),
                           DroppedQty(LedgerBefore(t),
                                      Rat(LastTrade(t).quantity), 1))

\* BUY 4, BUY 2, SELL 2 under AVG: the lots become 8/3 and 4/3, the second
\* is below the threshold 2 and removed, and the total drops from 6 to 8/3
C5_Witness ==
    /\ Done /\ method = "AVG"
    /\ Len(trades) = 3
    /\ \A i \in 1 .. 3 : trades[i].ticker = "AAPL"
    /\ trades[1].direction = "Buy" /\ trades[1].quantity = 4
    /\ trades[2].direction = "Buy" /\ trades[2].quantity = 2
    /\ trades[3].direction = "Sell" /\ trades[3].quantity = 2
    /\ Len(open_positions["AAPL"]) = 1
    /\ open_positions["AAPL"][1].quantity = [n |-> 8, d |-> 3]

(***************************************************************************)
(* C6                                                                      *)
(***************************************************************************)
\* C6: calculate with a method other than 'FIFO' and 'AVG' fails as a
\* configuration error and leaves no partial result: realized_profits is
\* empty and open_positions holds no ledger.
C6_Claimed ==
    (method \notin {"NONE", "FIFO", "AVG"}) =>
        /\ raised # "none"
        /\ realized_profits = <<>>
        /\ open_positions = EmptyDict

(***************************************************************************)
(* C7                                                                      *)
(***************************************************************************)
\* calculate on a new calculator that was given the trades tr
FirstCall(tr, m) == calculate([NewCalculator EXCEPT !.trades = tr], m)

\* C7: every calculate call, whatever earlier calls left in the calculator,
\* leaves the trades as they were and leaves realized_profits and
\* open_positions as a first call on a new calculator with the same trades
\* and method does.
C7_NoAccumulation ==
    [][(method' # "NONE") =>
          LET first == FirstCall(trades, method') IN
          /\ trades' = trades
          /\ realized_profits' = first.realized_profits
          /\ open_positions' = first.open_positions
          /\ raised' = first.raised]_vars

\* a call has left a ClosedTrade and an open lot: what a second call would
\* add to if it did not reset
C7_Witness ==
    /\ method = "AVG" /\ raised = "none"
    /\ Len(realized_profits) = 1
    /\ \E t \in DOMAIN open_positions : open_positions[t] # <<>>

(***************************************************************************)
(* C8                                                                      *)
(***************************************************************************)
TickersOf(tr) == {tr[i].ticker : i \in 1 .. Len(tr)}

\* C8: for FIFO and AVG and valid trades, each security's ClosedTrades (in
\* their order) and open lots after a call on the interleaved list are those
\* of a call on the security's own trades alone.
C8_PartitionIndependence ==
    (method \in {"FIFO", "AVG"} /\ NoZeroBuy) =>
        /\ DOMAIN open_positions = TickersOf(trades)
        /\ \A t \in TickersOf(trades) :
              /\ ClosedOf(t) = FirstCall(OwnTrades(t), method).realized_profits
              /\ open_positions[t] =
                     FirstCall(OwnTrades(t), method).open_positions[t]

\* BUY AAPL, BUY MSFT, SELL AAPL: a trade of MSFT lies between the BUY and
\* the SELL of AAPL
C8_Witness ==
    /\ Done
    /\ Len(trades) = 3
    /\ trades[1].ticker = "AAPL" /\ trades[1].direction = "Buy"
    /\ trades[2].ticker = "MSFT" /\ trades[2].direction = "Buy"
    /\ trades[3].ticker = "AAPL" /\ trades[3].direction = "Sell"
    /\ Len(ClosedOf("AAPL")) = 1
    /\ Len(open_positions["MSFT"]) = 1

(***************************************************************************)
(* C9                                                                      *)
(***************************************************************************)
\* total before the SELL minus min(q, total before)
TotalExpected(t) ==
    Sub(SumQty(LedgerBefore(t)),
        RMin(Rat(LastTrade(t).quantity), SumQty(LedgerBefore(t))))

Oversell(t) ==
    EndsWithSell(t) /\ Less(SumQty(LedgerBefore(t)), Rat(LastTrade(t).quantity))

NoNegativeLot(ledger) ==
    \A i \in 1 .. Len(ledger) : Leq(Zero, ledger[i].quantity)

\* C9 as claimed: for every SELL of q under FIFO and AVG the total open
\* quantity after the SELL is the total before minus min(q, total before);
\* an oversell leaves the ledger empty and no lot is left negative.
C9_Claimed ==
    Done =>
        \A t \in DOMAIN open_positions :
            EndsWithSell(t) =>
                /\ SumQty(open_positions[t]) = TotalExpected(t)
                /\ Oversell(t) => open_positions[t] = <<>>
                /\ NoNegativeLot(open_positions[t])

\* what the total open quantity falls short of TotalExpected
Shortfall(t) == Sub(TotalExpected(t), SumQty(open_positions[t]))

LotsRemoved(t) == Len(LedgerBefore(t)) - Len(open_positions[t])

\* C9, amended: under FIFO the total after a SELL is the total before minus
\* min(q, total before); under AVG it is that less the scaled quantities of
\* the lots the cleanup removed: nothing when the SELL takes the whole
\* ledger or removes no lot, and otherwise less than 1e-9 per removed lot.
\* An oversell leaves the ledger empty and no lot is left negative.
C9_QuantityConservation ==
    Done =>
        \A t \in DOMAIN open_positions :
            EndsWithSell(t) =>
                /\ method = "FIFO" => Shortfall(t) = Zero
                /\ method = "AVG" =>
                     /\ Leq(Zero, Shortfall(t))
                     /\ LotsRemoved(t) >= 0
                     /\ LotsRemoved(t) = 0 => Shortfall(t) = Zero
                     /\ open_positions[t] = <<>> /\ TotalExpected(t) = Zero
                            => Shortfall(t) = Zero
                     /\ Shortfall(t) # Zero =>
                            Less(Shortfall(t),
                                 Mul(Rat(LotsRemoved(t)), EPS))
                /\ Oversell(t) => open_positions[t] = <<>>
                /\ NoNegativeLot(open_positions[t])

\* BUY 2, BUY 2, SELL 2 under AVG: both lots are scaled to 1 and removed,
\* so the ledger is empty where a total of 2 was to stay
C9_Witness ==
    /\ Done /\ method = "AVG"
    /\ Len(trades) = 3
    /\ \A i \in 1 .. 3 : trades[i].ticker = "AAPL"
    /\ trades[1].direction = "Buy" /\ trades[1].quantity = 2
    /\ trades[2].direction = "Buy" /\ trades[2].quantity = 2
    /\ trades[3].direction = "Sell" /\ trades[3].quantity = 2
    /\ open_positions["AAPL"] = <<>>
    /\ TotalExpected("AAPL") = Rat(2)

(***************************************************************************)
(* C10                                                                     *)
(***************************************************************************)
\* C10: when a SELL exceeds the total open quantity, under FIFO and AVG the
\* cost_basis is the total cost (sum of quantity * unit_cost) of the lots
\* open before the SELL, and not more.
C10_Claimed ==
    Done =>
        \A t \in DOMAIN open_positions :
            Oversell(t) =>
                LastClosed(t).cost_basis = SumCost(LedgerBefore(t))

(***************************************************************************)
(* C11                                                                     *)
(***************************************************************************)
\* The caller adds a SELL of 5e-10, a quantity that is not a multiple of the
\* cleanup threshold (quantity is a float; create_trade and load_trades
\* accept any).
AddFineSell(ticker) ==
    /\ method = "NONE"
    /\ MayUse(ticker)
    /\ realized_profits = <<>>
    /\ open_positions = EmptyDict
    /\ Len(trades) < MaxTrades
    /\ trades' = Append(trades, Trade(Len(trades) + 1, ticker, "Sell", 1, 3, 1))
    /\ UNCHANGED <<realized_profits, open_positions, method, raised, loop>>

NextFine ==
    \/ \E ticker \in Tickers, direction \in Directions,
          quantity \in Quantities :
          \E pf \in PriceFees(direction) :
          AddTrade(ticker, direction, quantity, pf)
    \/ \E ticker \in Tickers : AddFineSell(ticker)
    \/ \E m \in {"FIFO", "AVG"} : Calculate(m)

\* the calculator fed with quantities that are not multiples of 1e-9
SpecFine == Init /\ [][NextFine]_vars

\* C11: under FIFO and AVG, once a SELL has been processed no lot with
\* remaining quantity below 1e-9 is left in the security's ledger, so none
\* is in open_positions after a SELL.
C11_Claimed ==
    Done =>
        \A t \in DOMAIN open_positions :
            EndsWithSell(t) =>
                \A i \in 1 .. Len(open_positions[t]) :
                    ~Less(open_positions[t][i].quantity, EPS)

(***************************************************************************)
(* C12                                                                     *)
(***************************************************************************)
\* what calculate(m) returns when called in the current state
CallNow(m) == calculate(Self, m)

\* C12: with an empty trade list calculate returns normally with empty
\* realized_profits and empty open_positions under FIFO and under AVG,
\* whatever results an earlier call left in the calculator.
C12_EmptyInput ==
    trades = <<>> =>
        /\ \A m \in {"FIFO", "AVG"} :
               /\ CallNow(m).raised = "none"
               /\ CallNow(m).realized_profits = <<>>
               /\ CallNow(m).open_positions = EmptyDict
        /\ method \in {"FIFO", "AVG"} =>
               /\ raised = "none"
               /\ realized_profits = <<>>
               /\ open_positions = EmptyDict

\* the list was emptied after a call that left a ClosedTrade and an open lot
C12_Witness ==
    /\ trades = <<>>
    /\ method = "NONE"
    /\ realized_profits # <<>>
    /\ \E t \in DOMAIN open_positions : open_positions[t] # <<>>

(***************************************************************************)
(* C13                                                                     *)
(***************************************************************************)
\* list.sort(key=lambda x: x.date): a stable insertion of trade into a
\* sorted list
InsertByDate(sorted, trade) ==
    LET before == SelectSeq(sorted, LAMBDA x : x.date <= trade.date)
        after == SelectSeq(sorted, LAMBDA x : x.date > trade.date)
    IN  before \o <<trade>> \o after

RECURSIVE SortByDate(_)
\* self.trades.sort(key=lambda x: x.date), the last statement of load_trades
SortByDate(tr) ==
    IF tr = <<>> THEN <<>>
    ELSE InsertByDate(SortByDate(SubSeq(tr, 1, Len(tr) - 1)), tr[Len(tr)])

\* The caller assigns calculator.trades a list that is not in date order:
\* the last two trades change places.
SwapLast ==
    /\ method = "NONE"
    /\ Len(trades) >= 2
    /\ trades' = [trades EXCEPT ![Len(trades) - 1] = trades[Len(trades)],
                                ![Len(trades)] = trades[Len(trades) - 1]]
    /\ UNCHANGED <<realized_profits, open_positions, method, raised, loop>>

NextUnsorted ==
    \/ \E ticker \in Tickers, direction \in Directions,
          quantity \in Quantities :
          \E pf \in PriceFees(direction) :
          AddTrade(ticker, direction, quantity, pf)
    \/ SwapLast
    \/ \E m \in {"FIFO", "AVG"} : Calculate(m)

\* the calculator called on lists that need not be in date order
SpecUnsorted == Init /\ [][NextUnsorted]_vars

\* C13: calculate on any permutation of trades with distinct dates gives,
\* for every security, the ClosedTrade records and the open lots that it
\* gives on the date-sorted list.
C13_Claimed ==
    Done =>
        LET sorted == FirstCall(SortByDate(trades), method)
        IN  /\ DOMAIN open_positions = DOMAIN sorted.open_positions
            /\ \A t \in DOMAIN open_positions :
                   /\ open_positions[t] = sorted.open_positions[t]
                   /\ ClosedOf(t) =
                          SelectSeq(sorted.realized_profits,
                                    LAMBDA c : c.ticker = t)

(***************************************************************************)
(* C14                                                                     *)
(***************************************************************************)
\* the SELL trade that closed trade c records (dates are distinct)
SellOf(c) ==
    CHOOSE i \in 1 .. Len(trades) :
        trades[i].date = c.date /\ trades[i].ticker = c.ticker

\* C14: every ClosedTrade has sale_proceeds = sell_price * quantity -
\* sell_fees and realized_profit = sale_proceeds - cost_basis, and its
\* quantity, price and fee are those of the whole SELL trade, under either
\* method, oversells and SELLs on an empty ledger included.
C14_ClosedTradeArithmetic ==
    \A k \in 1 .. Len(realized_profits) :
        LET c == realized_profits[k]
        IN  /\ c.sale_proceeds =
                   Sub(Mul(c.sell_price, c.quantity), c.sell_fees)
            /\ c.realized_profit = Sub(c.sale_proceeds, c.cost_basis)
            /\ method # "NONE" =>
                   /\ \E i \in 1 .. Len(trades) :
                          trades[i].date = c.date /\ trades[i].ticker = c.ticker
                   /\ trades[SellOf(c)].direction = "Sell"
                   /\ c.quantity = Rat(trades[SellOf(c)].quantity)
                   /\ c.sell_price = Rat(trades[SellOf(c)].price)
                   /\ c.sell_fees = Rat(trades[SellOf(c)].fee)

\* a SELL of more than the non-empty ledger held, closed at its whole
\* quantity
C14_Witness ==
    /\ Done
    /\ \E t \in DOMAIN open_positions :
           /\ EndsWithSell(t)
           /\ LedgerBefore(t) # <<>>
           /\ Less(SumQty(LedgerBefore(t)), Rat(LastTrade(t).quantity))
           /\ LastClosed(t).quantity = Rat(LastTrade(t).quantity)
           /\ LastClosed(t).sell_fees = Rat(1)

(***************************************************************************)
(* C15: the FIFO while loop of _process_ticker, one iteration at a time.   *)
(* loop.pc is "idle" between trades, "while" at the loop test and "exit"   *)
(* right after the loop; loop.n counts the trades of the security.         *)
(***************************************************************************)
\* a BUY is processed: the lot is appended to the ledger
LoopBuy(quantity, pf) ==
    /\ loop.pc \in {"idle", "exit"}
    /\ loop.n < MaxTrades
    /\ loop' = [loop EXCEPT
                   !.pc = "idle",
                   !.n = @ + 1,
                   !.ledger = Append(@, BuyLot(Trade(loop.n + 1, "AAPL", "Buy",
                                                     quantity, pf[1], pf[2])))]
    /\ UNCHANGED <<trades, realized_profits, open_positions, method, raised>>

\* a SELL starts: qty_to_sell = trade.quantity ; cost_basis = 0.0
LoopSell(quantity) ==
    /\ loop.pc \in {"idle", "exit"}
    /\ loop.n < MaxTrades
    /\ loop' = [loop EXCEPT
                   !.pc = "while",
                   !.n = @ + 1,
                   !.qty_to_sell = Rat(quantity),
                   !.cost_basis = Zero]
    /\ UNCHANGED <<trades, realized_profits, open_positions, method, raised>>

\* while qty_to_sell > 0 and ledger
LoopTest == Less(Zero, loop.qty_to_sell) /\ loop.ledger # <<>>

\* one pass through the body of the loop
FifoIter ==
    /\ loop.pc = "while"
    /\ LoopTest
    /\ LET s == IF Leq(Head(loop.ledger).quantity, loop.qty_to_sell)
                THEN FifoWhole(loop.ledger, loop.qty_to_sell, loop.cost_basis)
                ELSE FifoPartial(loop.ledger, loop.qty_to_sell, loop.cost_basis)
       IN  loop' = [loop EXCEPT
                       !.ledger = s.ledger,
                       !.qty_to_sell = s.qty_to_sell,
                       !.cost_basis = s.cost_basis]
    /\ UNCHANGED <<trades, realized_profits, open_positions, method, raised>>

\* the loop test fails and control leaves the loop
FifoExit ==
    /\ loop.pc = "while"
    /\ ~LoopTest
    /\ loop' = [loop EXCEPT !.pc = "exit"]
    /\ UNCHANGED <<trades, realized_profits, open_positions, method, raised>>

NextLoop ==
    \/ \E quantity \in Quantities, pf \in BuyPriceFees : LoopBuy(quantity, pf)
    \/ \E quantity \in Quantities : LoopSell(quantity)
    \/ FifoIter
    \/ FifoExit

\* The loop is straight-line code of one thread: once entered, the
\* interpreter keeps executing its test and its body.
SpecLoop ==
    Init /\ [][NextLoop]_vars /\ WF_vars(FifoIter) /\ WF_vars(FifoExit)

\* C15: the FIFO consumption loop of a SELL terminates; on exit the amount
\* still to sell is zero or the ledger is empty; each iteration removes the
\* head lot or sets the amount to sell to zero; the amount to sell is never
\* negative.
C15_FifoLoopTerminates ==
    /\ [](Leq(Zero, loop.qty_to_sell))
    /\ [](loop.pc = "exit" => (loop.qty_to_sell = Zero \/ loop.ledger = <<>>))
    /\ [][(loop.pc = "while" /\ loop'.pc = "while") =>
              (loop'.ledger = Tail(loop.ledger) \/ loop'.qty_to_sell = Zero)]_vars
    /\ (loop.pc = "while") ~> (loop.pc = "exit")

\* BUY 1e-9, BUY 2e-9, SELL 2e-9: the loop took the first lot whole and half
\* of the second, and has ended with nothing left to sell
C15_Witness ==
    /\ loop.pc = "exit"
    /\ loop.n = 3
    /\ loop.qty_to_sell = Zero
    /\ Len(loop.ledger) = 1
    /\ loop.ledger[1].date = 2
    /\ loop.ledger[1].quantity = Rat(2)

(***************************************************************************)
(* C16                                                                     *)
(***************************************************************************)
\* C16: a call whose trades hold a BUY of quantity zero ends in an error,
\* appends no lot of quantity zero to a ledger, and leaves no partial
\* output: no ClosedTrade and no open_positions entry from the trades
\* processed before the failure.
C16_Claimed ==
    (method # "NONE" /\ ~NoZeroBuy) =>
        /\ raised # "none"
        /\ \A t \in DOMAIN open_positions :
               \A i \in 1 .. Len(open_positions[t]) :
                   open_positions[t][i].quantity # Zero
        /\ realized_profits = <<>>
        /\ open_positions = EmptyDict

(***************************************************************************)
(* One security: the trade sequences that C17 and C19 are about.           *)
(***************************************************************************)
\* the caller adds a trade of the one security
AddOwnTrade(direction, quantity, pf) ==
    /\ method = "NONE"
    /\ Len(trades) < MaxOwnTrades
    /\ trades' = Append(trades, Trade(Len(trades) + 1, "AAPL", direction,
                                      quantity, pf[1], pf[2]))
    /\ UNCHANGED <<realized_profits, open_positions, method, raised, loop>>

NextSingle ==
    \/ \E direction \in Directions, quantity \in Quantities :
          \E pf \in PriceFees(direction) :
          AddOwnTrade(direction, quantity, pf)
    \/ \E m \in {"FIFO", "AVG"} : Calculate(m)

\* the calculator called on lists of trades of a single security
SpecSingle == Init /\ [][NextSingle]_vars

(***************************************************************************)
(* C17                                                                     *)
(***************************************************************************)
\* the ledger of security t after its first k trades, under method
LedgerAt(t, k) ==
    ProcessTrades([self |-> NewCalculator, ledger |-> <<>>], t,
                  SubSeq(OwnTrades(t), 1, k), method).ledger

\* no SELL of t exceeds the quantity open at that moment
NoOversell(t) ==
    \A k \in 1 .. Len(OwnTrades(t)) :
        OwnTrades(t)[k].direction = "Sell" =>
            Leq(Rat(OwnTrades(t)[k].quantity), SumQty(LedgerAt(t, k - 1)))

\* the sum of price * quantity + fee over the BUY trades of tr
RECURSIVE BoughtCost(_)
BoughtCost(tr) ==
    IF tr = <<>> THEN Zero
    ELSE Add(IF Head(tr).direction = "Buy"
             THEN Add(Mul(Rat(Head(tr).price), Rat(Head(tr).quantity)),
                      Rat(Head(tr).fee))
             ELSE Zero,
             BoughtCost(Tail(tr)))

RECURSIVE SumCostBasis(_)
SumCostBasis(closed) ==
    IF closed = <<>> THEN Zero
    ELSE Add(Head(closed).cost_basis, SumCostBasis(Tail(closed)))

\* cost_basis of the ClosedTrades of t plus the cost of its open lots
CostAccounted(t) ==
    Add(SumCostBasis(ClosedOf(t)), SumCost(open_positions[t]))

\* C17 as claimed: for FIFO and AVG and a security without oversell, the
\* cost_basis of its ClosedTrades plus quantity * unit_cost of its open
\* lots is the sum of price * quantity + fee over its BUY trades.
C17_Claimed ==
    Done =>
        \A t \in DOMAIN open_positions :
            NoOversell(t) => CostAccounted(t) = BoughtCost(OwnTrades(t))

\* scaled quantity * unit_cost of the lots of ledger that a SELL of q
\* scales below 1e-9
RECURSIVE DroppedCost(_, _, _)
DroppedCost(ledger, q, i) ==
    IF i > Len(ledger) THEN Zero
    ELSE Add(IF Less(ProRata(ledger, q, i), EPS)
             THEN Mul(ProRata(ledger, q, i), ledger[i].unit_cost) ELSE Zero,
             DroppedCost(ledger, q, i + 1))

\* the same, summed over the first k trades of t
RECURSIVE DroppedCostUpTo(_, _)
DroppedCostUpTo(t, k) ==
    IF k = 0 THEN Zero
    ELSE Add(IF OwnTrades(t)[k].direction = "Sell"
             THEN DroppedCost(LedgerAt(t, k - 1),
                              Rat(OwnTrades(t)[k].quantity), 1)
             ELSE Zero,
             DroppedCostUpTo(t, k - 1))

\* C17, amended: for a security without oversell, under FIFO the cost_basis
\* of its ClosedTrades plus the cost of its open lots is the cost of its
\* BUY trades; under AVG it is that cost less the cost, at their scaled
\* quantities, of the lots the cleanup has removed, so never more.
C17_CostConservation ==
    Done =>
        \A t \in DOMAIN open_positions :
            NoOversell(t) =>
                /\ method = "FIFO" =>
                       CostAccounted(t) = BoughtCost(OwnTrades(t))
                /\ method = "AVG" =>
                       /\ Add(CostAccounted(t),
                              DroppedCostUpTo(t, Len(OwnTrades(t))))
                              = BoughtCost(OwnTrades(t))
                       /\ Leq(CostAccounted(t), BoughtCost(OwnTrades(t)))

\* AVG, BUY 1e-9, BUY 2e-9, SELL 1e-9: the lots are scaled to 2/3 of 1e-9
\* (removed) and 4/3 of 1e-9 (kept), and the cost of the removed one is in
\* neither cost_basis nor the open lots
C17_Witness ==
    /\ Done /\ method = "AVG"
    /\ \E t \in DOMAIN open_positions :
           /\ NoOversell(t)
           /\ EndsWithSell(t)
           /\ Len(LedgerBefore(t)) = 2
           /\ Len(open_positions[t]) = 1
           /\ Less(CostAccounted(t), BoughtCost(OwnTrades(t)))

(***************************************************************************)
(* C18                                                                     *)
(***************************************************************************)
\* where security t first appears in trades
FirstIndex(t) ==
    CHOOSE i \in 1 .. Len(trades) :
        /\ trades[i].ticker = t
        /\ \A j \in 1 .. i - 1 : trades[j].ticker # t

\* C18: realized_profits lists the securities in the order of their first
\* appearance in trades and, within one security, the ClosedTrades in the
\* order of its SELL trades; the ClosedTrades of one security are
\* contiguous.
C18_OutputOrder ==
    method # "NONE" =>
        \A i, j \in 1 .. Len(realized_profits) :
            i < j =>
                LET a == realized_profits[i]
                    b == realized_profits[j]
                IN  /\ a.ticker = b.ticker =>
                           /\ SellOf(a) < SellOf(b)
                           /\ \A k \in i .. j :
                                  realized_profits[k].ticker = a.ticker
                    /\ a.ticker # b.ticker =>
                           FirstIndex(a.ticker) < FirstIndex(b.ticker)

\* BUY AAPL, SELL MSFT, SELL AAPL: the output has the later AAPL SELL
\* before the earlier MSFT SELL, so it is not in date order
C18_Witness ==
    /\ Done
    /\ Len(realized_profits) = 2
    /\ realized_profits[1].ticker = "AAPL"
    /\ realized_profits[2].ticker = "MSFT"
    /\ realized_profits[1].date > realized_profits[2].date

(***************************************************************************)
(* C19                                                                     *)
(***************************************************************************)
\* sum of the BUY quantities of tr less the sum of its SELL quantities
RECURSIVE NetQty(_)
NetQty(tr) ==
    IF tr = <<>> THEN 0
    ELSE (IF Head(tr).direction = "Buy"
          THEN Head(tr).quantity ELSE 0 - Head(tr).quantity)
         + NetQty(Tail(tr))

\* no SELL of t exceeds the BUY quantities less the SELL quantities so far
WithinNet(t) ==
    \A k \in 1 .. Len(OwnTrades(t)) :
        OwnTrades(t)[k].direction = "Sell" =>
            OwnTrades(t)[k].quantity <= NetQty(SubSeq(OwnTrades(t), 1, k - 1))

OtherMethod == IF method = "FIFO" THEN "AVG" ELSE "FIFO"

\* calculate under the other method on the trades of t
OtherCall(t) == FirstCall(OwnTrades(t), OtherMethod)

\* C19 as claimed: without oversell FIFO and AVG leave the same total open
\* quantity, the BUY quantities less the SELL quantities, and when a SELL
\* brings it to zero the sum of cost_basis over the ClosedTrades is the
\* same under both methods.
C19_Claimed ==
    Done =>
        \A t \in DOMAIN open_positions :
            WithinNet(t) =>
                /\ SumQty(open_positions[t]) = Rat(NetQty(OwnTrades(t)))
                /\ SumQty(OtherCall(t).open_positions[t])
                       = Rat(NetQty(OwnTrades(t)))
                /\ (EndsWithSell(t) /\ NetQty(OwnTrades(t)) = 0) =>
                       SumCostBasis(ClosedOf(t))
                           = SumCostBasis(OtherCall(t).realized_profits)

\* the AVG ledger of security t after its first k trades
AvgLedgerAt(t, k) ==
    ProcessTrades([self |-> NewCalculator, ledger |-> <<>>], t,
                  SubSeq(OwnTrades(t), 1, k), "AVG").ledger

\* under AVG no SELL of t scales a lot to a quantity strictly between 0 and
\* 1e-9, so the cleanup removes only lots of quantity 0
NoLossyCleanup(t) ==
    \A k \in 1 .. Len(OwnTrades(t)) :
        (OwnTrades(t)[k].direction = "Sell" /\ AvgLedgerAt(t, k - 1) # <<>>) =>
            DroppedQty(AvgLedgerAt(t, k - 1),
                       Rat(OwnTrades(t)[k].quantity), 1) = Zero

\* C19, amended: without oversell, and when under AVG no SELL scales a lot
\* to a quantity strictly between 0 and 1e-9, FIFO and AVG leave the same
\* total open quantity, the BUY quantities less the SELL quantities, and
\* when a SELL brings it to zero the sum of cost_basis over the ClosedTrades
\* is the same under both methods.
C19_MethodAgreement ==
    Done =>
        \A t \in DOMAIN open_positions :
            (WithinNet(t) /\ NoLossyCleanup(t)) =>
                /\ SumQty(open_positions[t]) = Rat(NetQty(OwnTrades(t)))
                /\ SumQty(OtherCall(t).open_positions[t])
                       = Rat(NetQty(OwnTrades(t)))
                /\ (EndsWithSell(t) /\ NetQty(OwnTrades(t)) = 0) =>
                       SumCostBasis(ClosedOf(t))
                           = SumCostBasis(OtherCall(t).realized_profits)

\* BUY 2e-9 @ 1, BUY 2e-9 @ 2 fee 1, SELL 2e-9, SELL 2e-9: the two methods
\* give the first SELL different cost bases and the closed position the
\* same sum
C19_Witness ==
    /\ Done
    /\ \E t \in DOMAIN open_positions :
           /\ WithinNet(t)
           /\ NoLossyCleanup(t)
           /\ EndsWithSell(t)
           /\ NetQty(OwnTrades(t)) = 0
           /\ Len(ClosedOf(t)) = 2
           /\ ClosedOf(t)[1].cost_basis
                  # OtherCall(t).realized_profits[1].cost_basis

====
